---- MODULE Spec2Model ----
(***************************************************************************)
(* UsdImagingAdapterRegistry (pxr/usdImaging/usdImaging/adapterRegistry.cpp) *)
(*                                                                         *)
(* The registry's constructor builds two tables, _typeMap (prim type name  *)
(* -> adapter type) and _apiSchemaTypeMap (API schema name -> adapter      *)
(* type), from the metadata of the adapter plugins PlugRegistry knows.     *)
(* Each loop iteration of the constructor is one action; the facade        *)
(* methods (HasAdapter, ConstructAdapter, ...) are one action each and are *)
(* enabled once the constructor has returned.                              *)
(***************************************************************************)
EXTENDS FiniteSets, Integers, Sequences, TLC

(***************************************************************************)
(* The inputs: the plugins PlugRegistry knows and the schema types of      *)
(* UsdSchemaRegistry / TfType.                                             *)
(***************************************************************************)

\* The TfTypes derived from UsdImagingPrimAdapter and from
\* UsdImagingAPISchemaAdapter that PlugRegistry can report.
PrimAdapters == {"A1", "A2", "A3"}
ApiAdapters  == {"S1", "S2"}

\* The sets of adapter types registered in one process: what the two calls
\* of PlugRegistry::GetAllDerivedTypes return.
Registrations ==
    { <<{}, {}>>, <<{"A1", "A2"}, {}>>, <<{"A1"}, {"S1"}>>, <<{}, {"S1", "S2"}>> }

\* A larger registration, built with the plugInfo records of
\* CorePrimMetadata.
LargeRegistrations == { <<{"A1", "A2", "A3"}, {}>> }

\* The default-constructed TfType (TfType::GetUnknownType()); it converts to
\* false and has no plugin.
UnknownType == "Unknown"

\* UsdImagingAdapterKeyTokens->instanceAdapterKey
instanceAdapterKey == "__instanceAdapter"

\* A JsObject entry is absent, holds a value of the wrong type, or holds a
\* bool (flags) / a string (names).
Absent    == "absent"
NonBool   == "nonbool"
NonString == "nonstring"
FlagValues == {Absent, "true", "false", NonBool}

\* The prim type names and API schema names a plugInfo may declare.
PrimTypeNames  == {"Cylinder", "Cylinder_1", "Cylinder_2", "CustomCylinder",
                   instanceAdapterKey}
ApiSchemaNames == {"", "LightAPI", "MeshLightAPI"}

\* The schema TfTypes and the schema type name of each ("" for a type that
\* is no schema type).
SchemaTypes ==
    {"UsdGeomCylinder_1", "UsdGeomCylinder_2", "UsdCustomCylinder",
     "UsdCappedCylinder", "UsdFancyCylinder", "UsdCylinderBase",
     "UsdThinCylinder", "UsdLightAPI", "UsdMeshLightAPI",
     "UsdPortalLightAPI", "UsdRingA", "UsdRingB", "UsdGeomCapsule_1",
     "UsdThinCapsule"}

\* UsdSchemaRegistry::GetSchemaTypeName(type)
GetSchemaTypeName(type) ==
    CASE type = "UsdGeomCylinder_1" -> "Cylinder_1"
      [] type = "UsdGeomCylinder_2" -> "Cylinder_2"
      [] type = "UsdCustomCylinder" -> "CustomCylinder"
      [] type = "UsdCappedCylinder" -> "CappedCylinder"
      [] type = "UsdFancyCylinder"  -> "FancyCylinder"
      [] type = "UsdThinCylinder"   -> "ThinCylinder"
      [] type = "UsdLightAPI"       -> "LightAPI"
      [] type = "UsdMeshLightAPI"   -> "MeshLightAPI"
      [] type = "UsdPortalLightAPI" -> "PortalLightAPI"
      [] type = "UsdRingA"          -> "RingA"
      [] type = "UsdRingB"          -> "RingB"
      [] type = "UsdGeomCapsule_1"  -> "GeomCapsule_1"
      [] type = "UsdThinCapsule"    -> "ThinCapsule"
      [] OTHER -> ""

\* UsdSchemaRegistry::GetTypeFromSchemaTypeName(name): the schema type with
\* that name, or the unknown type.
GetTypeFromSchemaTypeName(name) ==
    IF name # "" /\ \E t \in SchemaTypes : GetSchemaTypeName(t) = name
    THEN CHOOSE t \in SchemaTypes : GetSchemaTypeName(t) = name
    ELSE UnknownType

\* PlugRegistry::GetDirectlyDerivedTypes(type).  UsdFancyCylinder has two
\* bases; UsdCylinderBase is a C++ base class that is no schema type;
\* UsdRingA and UsdRingB are reported as derived from each other, a relation
\* with a cycle.
GetDirectlyDerivedTypes(type) ==
    CASE type = "UsdGeomCylinder_1" -> <<"UsdCylinderBase">>
      [] type = "UsdCylinderBase"   -> <<"UsdThinCylinder">>
      [] type = "UsdGeomCylinder_2" -> <<"UsdCustomCylinder", "UsdCappedCylinder">>
      [] type = "UsdCustomCylinder" -> <<"UsdFancyCylinder">>
      [] type = "UsdCappedCylinder" -> <<"UsdFancyCylinder">>
      [] type = "UsdLightAPI"       -> <<"UsdMeshLightAPI">>
      [] type = "UsdMeshLightAPI"   -> <<"UsdPortalLightAPI">>
      [] type = "UsdRingA"          -> <<"UsdRingB">>
      [] type = "UsdRingB"          -> <<"UsdRingA">>
      [] type = "UsdGeomCapsule_1"  -> <<"UsdThinCapsule">>
      [] OTHER -> <<>>

\* UsdSchemaRegistry::FindSchemaInfosInFamily(schemaFamily): the SchemaInfo
\* of every version of the family named schemaFamily; empty for a name that
\* is not a family's name.  The version of the family Capsule has the
\* identifier Capsule_1 and a schema type whose name, GeomCapsule_1, is not
\* that identifier.
FindSchemaInfosInFamily(schemaFamily) ==
    IF schemaFamily = "Cylinder"
    THEN << [identifier |-> "Cylinder_1", type |-> "UsdGeomCylinder_1"],
            [identifier |-> "Cylinder_2", type |-> "UsdGeomCylinder_2"] >>
    ELSE IF schemaFamily = "Capsule"
    THEN << [identifier |-> "Capsule_1", type |-> "UsdGeomCapsule_1"] >>
    ELSE <<>>

\* The keys callers ask the facade for: the declared names, a name only
\* derived-type propagation can add, and a name nothing declares.
PrimQueryKeys == PrimTypeNames \cup {"FancyCylinder", "Sphere"}
ApiQueryKeys  == ApiSchemaNames \cup {"PortalLightAPI", "Sphere"}

(***************************************************************************)
(* The metadata of the plugins.                                            *)
(***************************************************************************)

\* One plugInfo record of a prim adapter.
PrimMeta(internal, name, derived, family) ==
    [ plugin |-> TRUE, isInternal |-> internal, primTypeName |-> name,
      includeDerivedPrimTypes |-> derived, includeSchemaFamily |-> family ]

\* The plugInfo records a prim adapter may have.  An entry the constructor
\* does not read (it follows a continue) is left absent, save for two
\* records that opt in to the schema family behind a corrupted
\* includeDerivedPrimTypes.  Adapters marked isInternal vary in every other
\* entry; the others vary in isInternal and opt in to both propagations.
PrimMetadata ==
    { [ plugin |-> FALSE, isInternal |-> Absent, primTypeName |-> Absent,
        includeDerivedPrimTypes |-> Absent, includeSchemaFamily |-> Absent ] }
    \cup { PrimMeta("true", n, Absent, Absent) : n \in {Absent, NonString} }
    \cup { PrimMeta("true", n, NonBool, Absent) : n \in PrimTypeNames }
    \cup { PrimMeta("true", n, NonBool, "true") : n \in {"Cylinder", "Cylinder_2"} }
    \cup { PrimMeta("true", x[1], x[2], x[3]) :
             x \in PrimTypeNames \X {Absent, "true", "false"} \X FlagValues }
    \cup { PrimMeta(i, "Cylinder_2", "true", Absent) :
             i \in {Absent, "false", NonBool} }
    \cup { PrimMeta(i, "Cylinder", "true", "true") : i \in {Absent, "false"} }

\* One plugInfo record of an API schema adapter.
ApiMeta(internal, name, derived) ==
    [ plugin |-> TRUE, isInternal |-> internal, apiSchemaName |-> name,
      includeDerivedPrimTypes |-> derived ]

\* The plugInfo records an API schema adapter may have.
ApiMetadata ==
    { [ plugin |-> FALSE, isInternal |-> Absent, apiSchemaName |-> Absent,
        includeDerivedPrimTypes |-> Absent ] }
    \cup { ApiMeta("true", n, Absent) : n \in {Absent, NonString, ""} }
    \cup { ApiMeta("true", x[1], x[2]) :
             x \in (ApiSchemaNames \ {""}) \X FlagValues }
    \cup { ApiMeta(i, "LightAPI", "true") : i \in {Absent, "false", NonBool} }

\* The prim type names and plugInfo records of the runs that look at the
\* traversal of the type graph: every name with each choice of the two
\* opt-ins.
GraphPrimTypeNames == {"Cylinder_2", "CustomCylinder", "RingA", "Capsule"}
GraphPrimMetadata ==
    { [ plugin |-> FALSE, isInternal |-> Absent, primTypeName |-> Absent,
        includeDerivedPrimTypes |-> Absent, includeSchemaFamily |-> Absent ] }
    \cup { PrimMeta("true", x[1], x[2], x[3]) :
             x \in GraphPrimTypeNames \X {Absent, "true"} \X {Absent, "true"} }

\* The plugInfo records of the runs that go on to call the facade: for each
\* name an adapter that opts in to nothing and one that opts in to both
\* propagations, a plugin that is missing, an adapter that is not internal.
CorePrimMetadata ==
    { m \in PrimMetadata :
        \/ ~m.plugin
        \/ /\ m.isInternal = "true"
           /\ m.primTypeName \in PrimTypeNames
           /\ m.includeDerivedPrimTypes \in {Absent, "true"}
           /\ m.includeSchemaFamily = m.includeDerivedPrimTypes
        \/ m.isInternal = Absent }

CoreApiMetadata ==
    { m \in ApiMetadata :
        \/ ~m.plugin
        \/ /\ m.isInternal = "true"
           /\ m.apiSchemaName \in ApiSchemaNames \cup {Absent}
           /\ m.includeDerivedPrimTypes \in {Absent, "true"}
        \/ m.isInternal = Absent }

(***************************************************************************)
(* _TypeMap (a hash map from TfToken to TfType) and its operations.        *)
(***************************************************************************)

EmptyMap == <<>>

\* tm.count(key) != 0, tm.find(key) != tm.end()
Contains(tm, key) == key \in DOMAIN tm

\* tm[key] = type
Assign(tm, key, type) ==
    [k \in DOMAIN tm \cup {key} |-> IF k = key THEN type ELSE tm[k]]

\* tm.emplace(key, type): the map afterwards; .second is ~Contains(tm, key).
Emplace(tm, key, type) ==
    IF Contains(tm, key) THEN tm ELSE Assign(tm, key, type)

\* The map after evaluating tm[key]: operator[] inserts a default-constructed
\* TfType under a key that is absent.
Subscript(tm, key) == Emplace(tm, key, UnknownType)

\* The keys of a map in its iteration order (the order of the hash buckets,
\* fixed for a given key set).
RECURSIVE KeysOf(_)
KeysOf(keys) ==
    IF keys = {} THEN <<>>
    ELSE LET k == CHOOSE x \in keys : TRUE
         IN <<k>> \o KeysOf(keys \ {k})

VARIABLES
    areExternalPluginsEnabled,  \* AreExternalPluginsEnabled()
    metadata,                   \* adapter type -> its plugInfo metadata
    types,                      \* the candidates the running loop has left
    enumerated,                 \* the candidates in the order enumerated
    pc,                         \* the constructor's position
    _typeMap,
    _adapterKeys,
    _apiSchemaTypeMap,
    _apiSchemaAdapterKeys,
    _keylessApiSchemaAdapterTypes,
    includeDerivedPrimTypes,    \* TfTokenVector, local of the constructor
    includeSchemaFamilies,      \* vector<pair<TfToken,bool>>, local
    familyIndex,                \* position of the loop over includeSchemaFamilies
    rootIndex,                  \* _ProcessDerivedTypes: position of the outer loop
    adapterType,                \* _ProcessDerivedTypes: adapter being propagated
    derivedTypesStack,          \* _ProcessDerivedTypes: the traversal stack
    visited,                    \* the types popped since the traversal's start
    runtimeErrors,              \* TF_RUNTIME_ERRORs posted by the constructor
    codingErrors,               \* TF_CODING_ERRORs posted by the constructor
    ret,                        \* the last facade call and what it returned
    threadPc,                   \* thread -> its position in GetInstance()
    isInitializing,             \* TfSingleton: a thread is creating the instance
    _instance,                  \* TfSingleton: the instance has been published
    constructions,              \* how many times the constructor was entered
    observed,                   \* thread -> the tables it found on its access
    earlier                     \* what an earlier build of the same candidates gave

vars == << areExternalPluginsEnabled, metadata, types, enumerated, pc,
           _typeMap, _adapterKeys, _apiSchemaTypeMap, _apiSchemaAdapterKeys,
           _keylessApiSchemaAdapterTypes, includeDerivedPrimTypes,
           includeSchemaFamilies, familyIndex, rootIndex, adapterType,
           derivedTypesStack, visited, runtimeErrors, codingErrors, ret,
           threadPc, isInitializing,
           _instance, constructions, observed, earlier >>

\* The state of the singleton and of the threads that access it.
singletonVars ==
    << threadPc, isInitializing, _instance, constructions, observed >>

\* The registered prim adapter types and API schema adapter types.
primTypes == DOMAIN metadata \cap PrimAdapters
apiTypes  == DOMAIN metadata \cap ApiAdapters

\* The candidates have not been built before.
NoEarlierBuild == <<>>

\* No facade call has been made.
NoCall ==
    [ op |-> "none", key |-> "", env |-> <<>>, found |-> FALSE,
      instance |-> "null", list |-> <<>>, codingErrors |-> 0 ]

\* The state when the constructor starts, the registered adapter types being
\* one of registrations and their plugInfo records being drawn from
\* primMetadata and apiMetadata.
InitWith(registrations, primMetadata, apiMetadata) ==
    /\ areExternalPluginsEnabled \in BOOLEAN
    /\ \E reg \in registrations :
         \E pm \in [reg[1] -> primMetadata], am \in [reg[2] -> apiMetadata] :
            metadata = [t \in reg[1] \cup reg[2] |->
                           IF t \in reg[1] THEN pm[t] ELSE am[t]]
    /\ types = primTypes
    /\ enumerated = <<>>
    /\ pc = "prim"
    /\ _typeMap = EmptyMap
    /\ _adapterKeys = <<>>
    /\ _apiSchemaTypeMap = EmptyMap
    /\ _apiSchemaAdapterKeys = <<>>
    /\ _keylessApiSchemaAdapterTypes = <<>>
    /\ includeDerivedPrimTypes = <<>>
    /\ includeSchemaFamilies = <<>>
    /\ familyIndex = 1
    /\ rootIndex = 1
    /\ adapterType = UnknownType
    /\ derivedTypesStack = <<>>
    /\ visited = <<>>
    /\ runtimeErrors = 0
    /\ codingErrors = <<>>
    /\ ret = NoCall
    /\ earlier = NoEarlierBuild

(***************************************************************************)
(* The constructor, first loop: the prim adapters.                         *)
(***************************************************************************)

\* A faulty test: without an isInternal entry the adapter is taken for
\* enabled.
IsEnabled_AbsentIsEnabled(m) ==
    IF areExternalPluginsEnabled THEN "enabled"
    ELSE IF m.isInternal = Absent THEN "enabled"
    ELSE IF m.isInternal = NonBool THEN "corrupt"
    ELSE IF m.isInternal = "true" THEN "enabled" ELSE "disabled"

\* The isEnabled test: "enabled", "disabled", or "corrupt" when isInternal
\* holds no bool (a runtime error is posted and the candidate skipped).
IsEnabled(m) ==
    IF areExternalPluginsEnabled THEN "enabled"
    ELSE IF m.isInternal = Absent THEN "disabled"
    ELSE IF m.isInternal = NonBool THEN "corrupt"
    ELSE IF m.isInternal = "true" THEN "enabled" ELSE "disabled"

\* A faulty direct mapping: the adapter discovered first is kept.
DirectMapping_KeepFirst(tm, primTypeName, type) ==
    Emplace(tm, primTypeName, type)

\* _typeMap[primTypeName] = *typeIt
DirectMapping(tm, primTypeName, type) == Assign(tm, primTypeName, type)

\* The conflict the constructor posts when primTypeName is already mapped:
\* the coding error names the prim type, the adapter now used and the
\* adapter discarded.
Conflicts(tm, primTypeName, type) ==
    IF Contains(tm, primTypeName)
    THEN << [primType |-> primTypeName, used |-> type,
             discarded |-> tm[primTypeName]] >>
    ELSE <<>>

\* A faulty test: a value that holds no bool is taken for false.
IncludeDerivedEntry_NonBoolIsFalse(m) ==
    IF m.includeDerivedPrimTypes = "true" THEN "true" ELSE "false"

\* The test on metadata.find("includeDerivedPrimTypes"): "corrupt" posts a
\* runtime error and leaves the iteration; "true" records the name.
IncludeDerivedEntry(m) ==
    IF m.includeDerivedPrimTypes = NonBool THEN "corrupt"
    ELSE IF m.includeDerivedPrimTypes = "true" THEN "true"
    ELSE "false"

\* One iteration of the loop over the prim adapter types: what it leaves in
\* _typeMap, includeDerivedPrimTypes and includeSchemaFamilies and the errors
\* it posts.
PrimIteration(type) ==
    LET m == metadata[type]
        skip(errors) ==
            [ typeMap |-> _typeMap, derived |-> includeDerivedPrimTypes,
              families |-> includeSchemaFamilies, errors |-> errors,
              conflicts |-> <<>> ]
        primTypeName == m.primTypeName
        written(derived, families, errors) ==
            [ typeMap |-> DirectMapping(_typeMap, primTypeName, type),
              derived |-> derived, families |-> families, errors |-> errors,
              conflicts |-> Conflicts(_typeMap, primTypeName, type) ]
        includeDerived == IncludeDerivedEntry(m) = "true"
        derivedNow ==
            IF includeDerived
            THEN Append(includeDerivedPrimTypes, primTypeName)
            ELSE includeDerivedPrimTypes
    IN  IF ~m.plugin THEN skip(0)
        ELSE IF IsEnabled(m) = "corrupt" THEN skip(1)
        ELSE IF IsEnabled(m) = "disabled" THEN skip(0)
        ELSE IF primTypeName \in {Absent, NonString} THEN skip(1)
        ELSE IF IncludeDerivedEntry(m) = "corrupt"
             THEN written(includeDerivedPrimTypes, includeSchemaFamilies, 1)
        ELSE IF m.includeSchemaFamily = NonBool
             THEN written(derivedNow, includeSchemaFamilies, 1)
        ELSE IF m.includeSchemaFamily = "true"
             THEN written(derivedNow,
                          Append(includeSchemaFamilies,
                                 <<primTypeName, includeDerived>>), 0)
        ELSE written(derivedNow, includeSchemaFamilies, 0)

\* TF_FOR_ALL(typeIt, types) over the prim adapters: the set is ordered by
\* TfType's operator<, which no input of the model fixes.
DiscoverPrimAdapter(type) ==
    /\ pc = "prim"
    /\ type \in types
    /\ LET r == PrimIteration(type)
       IN  /\ _typeMap' = r.typeMap
           /\ includeDerivedPrimTypes' = r.derived
           /\ includeSchemaFamilies' = r.families
           /\ runtimeErrors' = runtimeErrors + r.errors
           /\ codingErrors' = codingErrors \o r.conflicts
    /\ types' = types \ {type}
    /\ enumerated' = Append(enumerated, type)
    /\ UNCHANGED << singletonVars, earlier, visited,
                    areExternalPluginsEnabled, metadata, pc, _adapterKeys,
                    _apiSchemaTypeMap, _apiSchemaAdapterKeys,
                    _keylessApiSchemaAdapterTypes, familyIndex, rootIndex,
                    adapterType, derivedTypesStack, ret >>

(***************************************************************************)
(* The loop over includeSchemaFamilies.                                    *)
(***************************************************************************)

\* A faulty family mapping: the family's adapter replaces what is mapped.
FamilyEmplace_Overwrite(tm, identifier, type) == Assign(tm, identifier, type)

\* _typeMap.emplace(schemaInfo->identifier, adapterType)
FamilyEmplace(tm, identifier, type) == Emplace(tm, identifier, type)

\* The loop over FindSchemaInfosInFamily(familyName), from its i-th element:
\* the map and includeDerivedPrimTypes it leaves.
RECURSIVE FamilyLoop(_, _, _, _, _, _)
FamilyLoop(infos, i, tm, derived, type, includeDerived) ==
    IF i > Len(infos) THEN [typeMap |-> tm, derived |-> derived]
    ELSE LET schemaInfo == infos[i]
             inserted == ~Contains(tm, schemaInfo.identifier)
             typeName == GetSchemaTypeName(schemaInfo.type)
         IN  FamilyLoop(infos, i + 1,
                        FamilyEmplace(tm, schemaInfo.identifier, type),
                        IF inserted /\ includeDerived
                        THEN Append(derived, typeName) ELSE derived,
                        type, includeDerived)

\* One iteration of: for (auto const &pair : includeSchemaFamilies)
ProcessSchemaFamily ==
    /\ pc = "prim"
    /\ types = {}
    /\ familyIndex <= Len(includeSchemaFamilies)
    /\ LET familyName == includeSchemaFamilies[familyIndex][1]
           includeDerived == includeSchemaFamilies[familyIndex][2]
           tm == Subscript(_typeMap, familyName)
           r == FamilyLoop(FindSchemaInfosInFamily(familyName), 1, tm,
                           includeDerivedPrimTypes, tm[familyName],
                           includeDerived)
       IN  /\ _typeMap' = r.typeMap
           /\ includeDerivedPrimTypes' = r.derived
    /\ familyIndex' = familyIndex + 1
    /\ UNCHANGED << singletonVars, earlier, visited,
                    areExternalPluginsEnabled, metadata, types, enumerated, pc,
                    _adapterKeys, _apiSchemaTypeMap, _apiSchemaAdapterKeys,
                    _keylessApiSchemaAdapterTypes, includeSchemaFamilies,
                    rootIndex, adapterType, derivedTypesStack, runtimeErrors,
                    codingErrors, ret >>

(***************************************************************************)
(* _ProcessDerivedTypes(tm), called for &_typeMap and then for             *)
(* &_apiSchemaTypeMap.                                                     *)
(***************************************************************************)

\* The map _ProcessDerivedTypes works on at the constructor's position.
CurrentMap == IF pc = "prim" THEN _typeMap ELSE _apiSchemaTypeMap

\* The loops before _ProcessDerivedTypes(tm) have finished.
DiscoveryDone ==
    /\ pc \in {"prim", "api"}
    /\ types = {}
    /\ pc = "prim" => familyIndex > Len(includeSchemaFamilies)

\* A faulty derived mapping: the ancestor's adapter replaces what is mapped.
DerivedEmplace_Overwrite(tm, typeName, type) == Assign(tm, typeName, type)

\* tm->emplace(typeName, adapterType)
DerivedEmplace(tm, typeName, type) == Emplace(tm, typeName, type)

\* A faulty descent: the directly derived types are pushed in every case.
PushDerived_Always(stack, derivedType, inserted) ==
    stack \o GetDirectlyDerivedTypes(derivedType)

\* The stack after a derived type was popped and its name looked at:
\* the directly derived types are pushed only when the name was inserted.
PushDerived(stack, derivedType, inserted) ==
    IF inserted THEN stack \o GetDirectlyDerivedTypes(derivedType) ELSE stack

\* The record of the pops of one traversal holds at most MaxVisited pops: a
\* traversal of the type graph at hand makes at most four.
MaxVisited == 6

\* The record of the pops after derivedType was popped; inserted tells
\* whether its name was added to the map.
Visit(pops, derivedType, inserted) ==
    IF Len(pops) < MaxVisited
    THEN Append(pops, [ type |-> derivedType, inserted |-> inserted ])
    ELSE pops

\* A faulty pop: the back of the stack is read and left where it is.
PopBack_Missing(stack) == stack

\* derivedTypesStack.pop_back()
PopBack(stack) == SubSeq(stack, 1, Len(stack) - 1)

\* The head of: for (const TfToken &primTypeName : includeDerivedPrimTypes),
\* down to the initialisation of derivedTypesStack.
StartDerivedRoot ==
    /\ DiscoveryDone
    /\ derivedTypesStack = <<>>
    /\ rootIndex <= Len(includeDerivedPrimTypes)
    /\ LET primTypeName == includeDerivedPrimTypes[rootIndex]
           primType == GetTypeFromSchemaTypeName(primTypeName)
           tm == Subscript(CurrentMap, primTypeName)
       IN  IF primType = UnknownType
           THEN UNCHANGED << _typeMap, _apiSchemaTypeMap, adapterType,
                             derivedTypesStack >>
           ELSE /\ IF pc = "prim"
                   THEN _typeMap' = tm /\ UNCHANGED _apiSchemaTypeMap
                   ELSE _apiSchemaTypeMap' = tm /\ UNCHANGED _typeMap
                /\ adapterType' = tm[primTypeName]
                /\ derivedTypesStack' = GetDirectlyDerivedTypes(primType)
    /\ rootIndex' = rootIndex + 1
    /\ visited' = <<>>
    /\ UNCHANGED << singletonVars, earlier,
                    areExternalPluginsEnabled, metadata, types, enumerated, pc,
                    _adapterKeys, _apiSchemaAdapterKeys,
                    _keylessApiSchemaAdapterTypes, includeDerivedPrimTypes,
                    includeSchemaFamilies, familyIndex, runtimeErrors,
                    codingErrors, ret >>

\* One iteration of: while (!derivedTypesStack.empty())
VisitDerivedType ==
    /\ pc \in {"prim", "api"}
    /\ derivedTypesStack # <<>>
    /\ LET derivedType == derivedTypesStack[Len(derivedTypesStack)]
           popped == PopBack(derivedTypesStack)
           typeName == GetSchemaTypeName(derivedType)
           inserted == ~Contains(CurrentMap, typeName)
           tm == DerivedEmplace(CurrentMap, typeName, adapterType)
       IN  IF typeName = ""
           THEN /\ derivedTypesStack' = popped
                /\ visited' = Visit(visited, derivedType, FALSE)
                /\ UNCHANGED << _typeMap, _apiSchemaTypeMap >>
           ELSE /\ IF pc = "prim"
                   THEN _typeMap' = tm /\ UNCHANGED _apiSchemaTypeMap
                   ELSE _apiSchemaTypeMap' = tm /\ UNCHANGED _typeMap
                /\ derivedTypesStack' = PushDerived(popped, derivedType, inserted)
                /\ visited' = Visit(visited, derivedType, inserted)
    /\ UNCHANGED << singletonVars, earlier,
                    areExternalPluginsEnabled, metadata, types, enumerated, pc,
                    _adapterKeys, _apiSchemaAdapterKeys,
                    _keylessApiSchemaAdapterTypes, includeDerivedPrimTypes,
                    includeSchemaFamilies, familyIndex, rootIndex, adapterType,
                    runtimeErrors, codingErrors, ret >>

\* _ProcessDerivedTypes(tm) has returned.
DerivedDone ==
    /\ DiscoveryDone
    /\ derivedTypesStack = <<>>
    /\ rootIndex > Len(includeDerivedPrimTypes)

\* After _ProcessDerivedTypes(&_typeMap): _adapterKeys is filled from the
\* keys of _typeMap, the locals are cleared and the API schema adapter types
\* are fetched.
FillAdapterKeys ==
    /\ pc = "prim"
    /\ DerivedDone
    /\ _adapterKeys' = KeysOf(DOMAIN _typeMap)
    /\ types' = apiTypes
    /\ includeDerivedPrimTypes' = <<>>
    /\ rootIndex' = 1
    /\ pc' = "api"
    /\ UNCHANGED << singletonVars, earlier, visited,
                    areExternalPluginsEnabled, metadata, enumerated, _typeMap,
                    _apiSchemaTypeMap, _apiSchemaAdapterKeys,
                    _keylessApiSchemaAdapterTypes, includeSchemaFamilies,
                    familyIndex, adapterType, derivedTypesStack, runtimeErrors,
                    codingErrors, ret >>

(***************************************************************************)
(* The constructor, second loop: the API schema adapters.                  *)
(***************************************************************************)

\* _apiSchemaTypeMap[apiSchemaName] = *typeIt
ApiDirectMapping(tm, apiSchemaName, type) == Assign(tm, apiSchemaName, type)

\* The coding errors the loop posts when apiSchemaName is already mapped: the
\* loop over the API schema adapters has no such test.
ApiConflicts(tm, apiSchemaName, type) == <<>>

\* A faulty routing: no adapter is taken for keyless.
IsKeyless_Never(apiSchemaName) == FALSE

\* apiSchemaName.IsEmpty(): the adapter goes to
\* _keylessApiSchemaAdapterTypes.
IsKeyless(apiSchemaName) == apiSchemaName = ""

\* A faulty test: a missing apiSchemaName entry goes unreported.
ApiSchemaNameEntry_MissingAccepted(m) ==
    IF m.apiSchemaName = NonString THEN "corrupt" ELSE "string"

\* The test on metadata.find("apiSchemaName"): "missing" and "corrupt" post a
\* runtime error and skip the candidate.
ApiSchemaNameEntry(m) ==
    IF m.apiSchemaName = Absent THEN "missing"
    ELSE IF m.apiSchemaName = NonString THEN "corrupt"
    ELSE "string"

\* One iteration of the loop over the API schema adapter types.
ApiIteration(type) ==
    LET m == metadata[type]
        skip(errors) ==
            [ typeMap |-> _apiSchemaTypeMap,
              keyless |-> _keylessApiSchemaAdapterTypes,
              derived |-> includeDerivedPrimTypes, errors |-> errors,
              conflicts |-> <<>> ]
        apiSchemaName == m.apiSchemaName
        written(derived, errors) ==
            [ typeMap |-> ApiDirectMapping(_apiSchemaTypeMap, apiSchemaName, type),
              keyless |-> _keylessApiSchemaAdapterTypes,
              derived |-> derived, errors |-> errors,
              conflicts |-> ApiConflicts(_apiSchemaTypeMap, apiSchemaName, type) ]
    IN  IF ~m.plugin THEN skip(0)
        ELSE IF IsEnabled(m) = "corrupt" THEN skip(1)
        ELSE IF IsEnabled(m) = "disabled" THEN skip(0)
        ELSE IF ApiSchemaNameEntry(m) # "string" THEN skip(1)
        ELSE IF IsKeyless(apiSchemaName)
             THEN [ skip(0) EXCEPT
                      !.keyless = Append(_keylessApiSchemaAdapterTypes, type) ]
        ELSE IF m.includeDerivedPrimTypes = NonBool
             THEN written(includeDerivedPrimTypes, 1)
        ELSE IF m.includeDerivedPrimTypes = "true"
             THEN written(Append(includeDerivedPrimTypes, apiSchemaName), 0)
        ELSE written(includeDerivedPrimTypes, 0)

\* TF_FOR_ALL(typeIt, types) over the API schema adapters.
DiscoverApiSchemaAdapter(type) ==
    /\ pc = "api"
    /\ type \in types
    /\ LET r == ApiIteration(type)
       IN  /\ _apiSchemaTypeMap' = r.typeMap
           /\ _keylessApiSchemaAdapterTypes' = r.keyless
           /\ includeDerivedPrimTypes' = r.derived
           /\ runtimeErrors' = runtimeErrors + r.errors
           /\ codingErrors' = codingErrors \o r.conflicts
    /\ types' = types \ {type}
    /\ enumerated' = Append(enumerated, type)
    /\ UNCHANGED << singletonVars, earlier, visited,
                    areExternalPluginsEnabled, metadata, pc, _typeMap,
                    _adapterKeys, _apiSchemaAdapterKeys, includeSchemaFamilies,
                    familyIndex, rootIndex, adapterType, derivedTypesStack,
                    ret >>

\* After _ProcessDerivedTypes(&_apiSchemaTypeMap): _apiSchemaAdapterKeys is
\* filled from the keys of _apiSchemaTypeMap and the constructor returns.
FillApiSchemaAdapterKeys ==
    /\ pc = "api"
    /\ DerivedDone
    /\ _apiSchemaAdapterKeys' = KeysOf(DOMAIN _apiSchemaTypeMap)
    /\ pc' = "done"
    /\ UNCHANGED << singletonVars, earlier, visited,
                    areExternalPluginsEnabled, metadata, types, enumerated,
                    _typeMap, _adapterKeys, _apiSchemaTypeMap,
                    _keylessApiSchemaAdapterTypes, includeDerivedPrimTypes,
                    includeSchemaFamilies, familyIndex, rootIndex, adapterType,
                    derivedTypesStack, runtimeErrors, codingErrors, ret >>

(***************************************************************************)
(* The facade, callable once the constructor has returned.                 *)
(***************************************************************************)

\* The empty shared_ptr (NULL_ADAPTER), and the instance the built-in key
\* yields.  Any other instance is named by the adapter type it instantiates.
NULL_ADAPTER == "null"
UsdImagingInstanceAdapter == "UsdImagingInstanceAdapter"

\* What a construction meets outside the registry: whether plugin->Load()
\* succeeds, whether the type has a factory, whether factory->New() yields an
\* instance.  A stage that is not reached (an earlier one failed) is left
\* TRUE.
Environments ==
    { e \in [load : BOOLEAN, factory : BOOLEAN, new : BOOLEAN] :
        /\ ~e.load => e.factory /\ e.new
        /\ ~e.factory => e.new }

\* plugReg.GetPluginForType(adapterType) is non-null.
GetPluginForType(type) ==
    type \in DOMAIN metadata /\ metadata[type].plugin

\* A faulty lookup: the built-in key is looked up in _typeMap like any other.
HasAdapter_TableOnly(adapterKey) == Contains(_typeMap, adapterKey)

\* bool HasAdapter(adapterKey)
HasAdapter(adapterKey) ==
    IF adapterKey = instanceAdapterKey THEN TRUE
    ELSE Contains(_typeMap, adapterKey)

\* bool HasAPISchemaAdapter(adapterKey)
HasAPISchemaAdapter(adapterKey) == Contains(_apiSchemaTypeMap, adapterKey)

\* A faulty construction: a factory that yields no instance goes unreported.
ConstructAdapterOfType_SilentNew(adapterKey, type, env) ==
    IF ~GetPluginForType(type) \/ ~env.load
    THEN [instance |-> "null", codingErrors |-> 1]
    ELSE IF ~env.factory
    THEN [instance |-> "null", codingErrors |-> 1]
    ELSE IF ~env.new
    THEN [instance |-> "null", codingErrors |-> 0]
    ELSE [instance |-> type, codingErrors |-> 0]

\* _ConstructAdapter(adapterKey, adapterType): the instance returned and the
\* number of coding errors posted.
ConstructAdapterOfType(adapterKey, type, env) ==
    IF ~GetPluginForType(type) \/ ~env.load
    THEN [instance |-> NULL_ADAPTER, codingErrors |-> 1]
    ELSE IF ~env.factory
    THEN [instance |-> NULL_ADAPTER, codingErrors |-> 1]
    ELSE IF ~env.new
    THEN [instance |-> NULL_ADAPTER, codingErrors |-> 1]
    ELSE [instance |-> type, codingErrors |-> 0]

\* _ConstructAdapter(adapterKey, tm)
ConstructAdapterByKey(adapterKey, tm, env) ==
    IF ~Contains(tm, adapterKey)
    THEN [instance |-> NULL_ADAPTER, codingErrors |-> 0]
    ELSE ConstructAdapterOfType(adapterKey, tm[adapterKey], env)

\* ConstructAdapter(adapterKey)
ConstructAdapter(adapterKey, env) ==
    IF adapterKey = instanceAdapterKey
    THEN [instance |-> UsdImagingInstanceAdapter, codingErrors |-> 0]
    ELSE ConstructAdapterByKey(adapterKey, _typeMap, env)

\* ConstructAPISchemaAdapter(adapterKey)
ConstructAPISchemaAdapter(adapterKey, env) ==
    ConstructAdapterByKey(adapterKey, _apiSchemaTypeMap, env)

\* The loop of ConstructKeylessAPISchemaAdapters from its i-th type, envs[i]
\* being what the i-th construction meets: the instances pushed and the
\* coding errors posted.
RECURSIVE KeylessLoop(_, _, _)
KeylessLoop(adapterTypes, envs, i) ==
    IF i > Len(adapterTypes) THEN [result |-> <<>>, codingErrors |-> 0]
    ELSE LET one == ConstructAdapterOfType("", adapterTypes[i], envs[i])
             rest == KeylessLoop(adapterTypes, envs, i + 1)
         IN  [ result |-> IF one.instance # NULL_ADAPTER
                          THEN <<one.instance>> \o rest.result
                          ELSE rest.result,
               codingErrors |-> one.codingErrors + rest.codingErrors ]

\* ConstructKeylessAPISchemaAdapters()
ConstructKeylessAPISchemaAdapters(envs) ==
    KeylessLoop(_keylessApiSchemaAdapterTypes, envs, 1)

\* A faulty lookup: the key is looked up with operator[], which inserts it.
Find_Inserts(tm, key) == Subscript(tm, key)

\* The map after tm.find(key): the facade methods are const and look a key
\* up with find, which leaves the map as it is.
Find(tm, key) == tm

\* A facade call returns r, having left typeMap and apiSchemaTypeMap in the
\* two maps: nothing else changes.
Return(r, typeMap, apiSchemaTypeMap) ==
    /\ ret' = r
    /\ _typeMap' = typeMap
    /\ _apiSchemaTypeMap' = apiSchemaTypeMap
    /\ UNCHANGED << singletonVars, earlier, visited,
                    areExternalPluginsEnabled, metadata, types, enumerated, pc,
                    _adapterKeys, _apiSchemaAdapterKeys,
                    _keylessApiSchemaAdapterTypes, includeDerivedPrimTypes,
                    includeSchemaFamilies, familyIndex, rootIndex,
                    adapterType, derivedTypesStack, runtimeErrors,
                    codingErrors >>

\* The prim map after HasAdapter(adapterKey) or ConstructAdapter(adapterKey):
\* the built-in key returns before the map is looked at.
AfterPrimLookup(adapterKey) ==
    IF adapterKey = instanceAdapterKey THEN _typeMap
    ELSE Find(_typeMap, adapterKey)

CallHasAdapter(adapterKey) ==
    /\ pc = "done"
    /\ Return([NoCall EXCEPT !.op = "HasAdapter", !.key = adapterKey,
                             !.found = HasAdapter(adapterKey)],
              AfterPrimLookup(adapterKey), _apiSchemaTypeMap)

CallHasAPISchemaAdapter(adapterKey) ==
    /\ pc = "done"
    /\ Return([NoCall EXCEPT !.op = "HasAPISchemaAdapter", !.key = adapterKey,
                             !.found = HasAPISchemaAdapter(adapterKey)],
              _typeMap, Find(_apiSchemaTypeMap, adapterKey))

CallGetAdapterKeys ==
    /\ pc = "done"
    /\ Return([NoCall EXCEPT !.op = "GetAdapterKeys", !.list = _adapterKeys],
              _typeMap, _apiSchemaTypeMap)

CallGetAPISchemaAdapterKeys ==
    /\ pc = "done"
    /\ Return([NoCall EXCEPT !.op = "GetAPISchemaAdapterKeys",
                             !.list = _apiSchemaAdapterKeys],
              _typeMap, _apiSchemaTypeMap)

CallConstructAdapter(adapterKey, env) ==
    /\ pc = "done"
    /\ LET r == ConstructAdapter(adapterKey, env)
       IN  Return([NoCall EXCEPT !.op = "ConstructAdapter", !.key = adapterKey,
                                 !.env = env, !.instance = r.instance,
                                 !.codingErrors = r.codingErrors],
                  AfterPrimLookup(adapterKey), _apiSchemaTypeMap)

CallConstructAPISchemaAdapter(adapterKey, env) ==
    /\ pc = "done"
    /\ LET r == ConstructAPISchemaAdapter(adapterKey, env)
       IN  Return([NoCall EXCEPT !.op = "ConstructAPISchemaAdapter",
                                 !.key = adapterKey, !.env = env,
                                 !.instance = r.instance,
                                 !.codingErrors = r.codingErrors],
                  _typeMap, Find(_apiSchemaTypeMap, adapterKey))

CallConstructKeylessAPISchemaAdapters(envs) ==
    /\ pc = "done"
    /\ LET r == ConstructKeylessAPISchemaAdapters(envs)
       IN  Return([NoCall EXCEPT !.op = "ConstructKeylessAPISchemaAdapters",
                                 !.env = envs, !.list = r.result,
                                 !.codingErrors = r.codingErrors],
                  _typeMap, _apiSchemaTypeMap)

\* The steps of the constructor.
Construct ==
    \/ \E type \in PrimAdapters : DiscoverPrimAdapter(type)
    \/ ProcessSchemaFamily
    \/ StartDerivedRoot
    \/ VisitDerivedType
    \/ FillAdapterKeys
    \/ \E type \in ApiAdapters : DiscoverApiSchemaAdapter(type)
    \/ FillApiSchemaAdapterKeys

\* The calls of the facade.
Facade ==
    \/ \E adapterKey \in PrimQueryKeys : CallHasAdapter(adapterKey)
    \/ \E adapterKey \in ApiQueryKeys : CallHasAPISchemaAdapter(adapterKey)
    \/ CallGetAdapterKeys
    \/ CallGetAPISchemaAdapterKeys
    \/ \E adapterKey \in PrimQueryKeys, env \in Environments :
          CallConstructAdapter(adapterKey, env)
    \/ \E adapterKey \in ApiQueryKeys, env \in Environments :
          CallConstructAPISchemaAdapter(adapterKey, env)
    \/ \E envs \in [1 .. Len(_keylessApiSchemaAdapterTypes) -> Environments] :
          CallConstructKeylessAPISchemaAdapters(envs)

(***************************************************************************)
(* TfSingleton<UsdImagingAdapterRegistry>::GetInstance(): the threads that *)
(* access the registry.                                                    *)
(***************************************************************************)

Threads == {"t1", "t2", "t3"}

\* A thread that has not accessed the registry has observed nothing.
NoObservation == [ built |-> FALSE, tables |-> <<>> ]

\* One thread made the first access and is in the constructor: the state in
\* which the constructor is looked at on its own.
OneCaller ==
    /\ threadPc = [t \in Threads |-> IF t = "t1" THEN "construct" ELSE "start"]
    /\ isInitializing = TRUE
    /\ _instance = FALSE
    /\ constructions = 1
    /\ observed = [t \in Threads |-> NoObservation]

\* No thread has accessed the registry.
NoCaller ==
    /\ threadPc = [t \in Threads |-> "start"]
    /\ isInitializing = FALSE
    /\ _instance = FALSE
    /\ constructions = 0
    /\ observed = [t \in Threads |-> NoObservation]

\* Nothing of the registry changes.
registryVars ==
    << areExternalPluginsEnabled, metadata, types, enumerated, pc, _typeMap,
       _adapterKeys, _apiSchemaTypeMap, _apiSchemaAdapterKeys,
       _keylessApiSchemaAdapterTypes, includeDerivedPrimTypes,
       includeSchemaFamilies, familyIndex, rootIndex, adapterType,
       derivedTypesStack, visited, runtimeErrors, codingErrors, ret,
       earlier >>

\* GetInstance(): the instance is returned when it is there, _CreateInstance
\* is called when it is not.
GetInstance(t) ==
    /\ threadPc[t] = "start"
    /\ threadPc' = [threadPc EXCEPT ![t] = IF _instance THEN "ready" ELSE "create"]
    /\ UNCHANGED << isInitializing, _instance, constructions, observed,
                    registryVars >>

\* isInitializing.exchange(true) == false: the thread is the one to create
\* the instance.
TakesInitializing(flag) == ~flag

\* _CreateInstance(): the thread that takes isInitializing constructs the
\* registry when there is no instance yet; every other thread waits.
CreateInstance(t) ==
    /\ threadPc[t] = "create"
    /\ IF TakesInitializing(isInitializing)
       THEN IF _instance
            THEN /\ threadPc' = [threadPc EXCEPT ![t] = "ready"]
                 /\ UNCHANGED << isInitializing, constructions >>
            ELSE /\ threadPc' = [threadPc EXCEPT ![t] = "construct"]
                 /\ isInitializing' = TRUE
                 /\ constructions' = constructions + 1
       ELSE /\ threadPc' = [threadPc EXCEPT ![t] = "wait"]
            /\ UNCHANGED << isInitializing, constructions >>
    /\ UNCHANGED << _instance, observed, registryVars >>

\* A faulty wait: the waiting thread goes on before the instance is there.
InstanceVisible_NoWait(inst) == TRUE

\* while (!instance) yield: the waiting thread goes on once the instance
\* has been published.
InstanceVisible(inst) == inst

AwaitInstance(t) ==
    /\ threadPc[t] = "wait"
    /\ InstanceVisible(_instance)
    /\ threadPc' = [threadPc EXCEPT ![t] = "ready"]
    /\ UNCHANGED << isInitializing, _instance, constructions, observed,
                    registryVars >>

\* A step of the constructor, taken by a thread that is in it.
ConstructorStep ==
    /\ \E t \in Threads : threadPc[t] = "construct"
    /\ Construct

\* The constructor has returned: the instance is published and
\* isInitializing released.
PublishInstance(t) ==
    /\ threadPc[t] = "construct"
    /\ pc = "done"
    /\ _instance' = TRUE
    /\ isInitializing' = FALSE
    /\ threadPc' = [threadPc EXCEPT ![t] = "ready"]
    /\ UNCHANGED << constructions, observed, registryVars >>

\* The thread has the instance and makes its lookup or enumeration: what it
\* finds in the tables, and whether the constructor had returned.
Observe(t) ==
    /\ threadPc[t] = "ready"
    /\ observed' = [observed EXCEPT ![t] =
                       [ built |-> pc = "done",
                         tables |-> << _typeMap, _adapterKeys,
                                       _apiSchemaTypeMap,
                                       _apiSchemaAdapterKeys >> ]]
    /\ threadPc' = [threadPc EXCEPT ![t] = "done"]
    /\ UNCHANGED << isInitializing, _instance, constructions, registryVars >>

\* The whole program: the registry is built, then used.
Init == InitWith(Registrations, CorePrimMetadata, CoreApiMetadata) /\ OneCaller
Next == Construct \/ Facade
Spec == Init /\ [][Next]_vars

\* The constructor alone, over every plugInfo record, and over three prim
\* adapters at once.
BuildInit ==
    \/ InitWith(Registrations, PrimMetadata, ApiMetadata) /\ OneCaller
    \/ InitWith(LargeRegistrations, CorePrimMetadata, CoreApiMetadata) /\ OneCaller
BuildSpec == BuildInit /\ [][Construct]_vars

\* The constructor over the plugInfo records of GraphPrimMetadata.  It is
\* sequential code: once entered, it goes on taking its steps.
GraphRegistrations == { <<{"A1", "A2"}, {}>>, <<{"A1"}, {"S1"}>> }
GraphInit ==
    InitWith(GraphRegistrations, GraphPrimMetadata, CoreApiMetadata) /\ OneCaller
GraphSpec == GraphInit /\ [][Construct]_vars /\ WF_vars(Construct)

\* Threads that make their first access to the registry at the same time.
ThreadRegistrations == { <<{"A1"}, {"S1"}>> }
ThreadInit ==
    InitWith(ThreadRegistrations, CorePrimMetadata, CoreApiMetadata) /\ NoCaller
ThreadNext ==
    \/ \E t \in Threads : GetInstance(t)
    \/ \E t \in Threads : CreateInstance(t)
    \/ \E t \in Threads : AwaitInstance(t)
    \/ ConstructorStep
    \/ \E t \in Threads : PublishInstance(t)
    \/ \E t \in Threads : Observe(t)
ThreadSpec == ThreadInit /\ [][ThreadNext]_vars

\* The prim type names and plugInfo records of the runs that build the same
\* candidates twice: a family and one of its versions, and the two bases of
\* FancyCylinder, with each choice of the two opt-ins.
OrderPrimTypeNames ==
    {"Cylinder", "Cylinder_2", "CustomCylinder", "CappedCylinder"}
OrderPrimMetadata ==
    { [ plugin |-> FALSE, isInternal |-> Absent, primTypeName |-> Absent,
        includeDerivedPrimTypes |-> Absent, includeSchemaFamily |-> Absent ] }
    \cup { PrimMeta("true", x[1], x[2], x[3]) :
             x \in OrderPrimTypeNames \X {Absent, "true"} \X {Absent, "true"} }

\* The constructor runs again (another process, another run of the program)
\* over the same candidates and the same plugInfo: what the finished build
\* gave is kept for comparison, and the plugin registry is free to list the
\* candidates in another order.
BuildAgain ==
    /\ pc = "done"
    /\ earlier = NoEarlierBuild
    /\ earlier' = << [ enumerated |-> enumerated, _typeMap |-> _typeMap,
                       _apiSchemaTypeMap |-> _apiSchemaTypeMap ] >>
    /\ types' = primTypes
    /\ enumerated' = <<>>
    /\ pc' = "prim"
    /\ _typeMap' = EmptyMap
    /\ _adapterKeys' = <<>>
    /\ _apiSchemaTypeMap' = EmptyMap
    /\ _apiSchemaAdapterKeys' = <<>>
    /\ _keylessApiSchemaAdapterTypes' = <<>>
    /\ includeDerivedPrimTypes' = <<>>
    /\ includeSchemaFamilies' = <<>>
    /\ familyIndex' = 1
    /\ rootIndex' = 1
    /\ adapterType' = UnknownType
    /\ derivedTypesStack' = <<>>
    /\ visited' = <<>>
    /\ runtimeErrors' = 0
    /\ codingErrors' = <<>>
    /\ UNCHANGED << singletonVars, areExternalPluginsEnabled, metadata, ret >>

\* Two builds of the same candidates, one after the other.
OrderRegistrations == { <<{"A1", "A2"}, {}>>, <<{"A1"}, {"S1", "S2"}>> }
OrderInit ==
    InitWith(OrderRegistrations, OrderPrimMetadata, CoreApiMetadata) /\ OneCaller
OrderNext == Construct \/ BuildAgain
OrderSpec == OrderInit /\ [][OrderNext]_vars

(***************************************************************************)
(* Vocabulary of the properties.                                           *)
(***************************************************************************)

\* The values of a map.
Values(tm) == { tm[k] : k \in DOMAIN tm }

\* The elements of a sequence.
Elements(seq) == { seq[i] : i \in 1 .. Len(seq) }

\* Adapter a has a plugin, is enabled and declares the prim type name n: the
\* first loop writes n -> a.
DeclaresPrim(a, n) ==
    /\ a \in primTypes
    /\ metadata[a].plugin
    /\ IsEnabled(metadata[a]) = "enabled"
    /\ n \in PrimTypeNames \cup GraphPrimTypeNames \cup OrderPrimTypeNames
    /\ metadata[a].primTypeName = n

\* Adapter a has a plugin, is enabled and its metadata holds the string n
\* (possibly empty) under apiSchemaName.
DeclaresApi(a, n) ==
    /\ a \in apiTypes
    /\ metadata[a].plugin
    /\ IsEnabled(metadata[a]) = "enabled"
    /\ n \in ApiSchemaNames
    /\ metadata[a].apiSchemaName = n

\* The enumerated adapters that declare n, in the order enumerated.
PrimDeclarers(n) == SelectSeq(enumerated, LAMBDA a : DeclaresPrim(a, n))
ApiDeclarers(n)  == SelectSeq(enumerated, LAMBDA a : DeclaresApi(a, n))

Last(seq) == seq[Len(seq)]

\* The first loop (over the prim adapters) has finished.
PrimDiscovered == pc # "prim" \/ types = {}

\* The loop over includeSchemaFamilies has finished.
FamiliesProcessed ==
    pc # "prim" \/ (types = {} /\ familyIndex > Len(includeSchemaFamilies))

\* The schema types derived from type, directly or not.
RECURSIVE DerivedWithin(_, _)
DerivedWithin(type, depth) ==
    LET direct == Elements(GetDirectlyDerivedTypes(type))
    IN  IF depth = 0 THEN {}
        ELSE direct \cup UNION { DerivedWithin(d, depth - 1) : d \in direct }

AllDerivedTypes(type) == DerivedWithin(type, Cardinality(SchemaTypes))

\* The names of the schema types derived from the schema type named n.
DerivedNames(n) ==
    { GetSchemaTypeName(d) : d \in AllDerivedTypes(GetTypeFromSchemaTypeName(n)) }
        \ {""}

\* The schema families and the identifiers of a family's versions.
SchemaFamilies == {"Cylinder"}
FamilyIdentifiers(family) ==
    { info.identifier : info \in Elements(FindSchemaInfosInFamily(family)) }

\* Adapter a covers every version of family and every type derived from one,
\* save the names other than n that have an adapter of their own.
C1_Covered(a, family, n) ==
    LET covered ==
            FamilyIdentifiers(family)
                \cup UNION { DerivedNames(v) : v \in FamilyIdentifiers(family) }
        own == { k \in covered \ {n} :
                   \E b \in primTypes : DeclaresPrim(b, k) }
    IN  \A k \in covered \ own :
            HasAdapter(k) /\ Contains(_typeMap, k) /\ _typeMap[k] = a

(***************************************************************************)
(* C1.  An adapter that declares primTypeName N with includeSchemaFamily   *)
(* and includeDerivedPrimTypes true, N being one version of a schema       *)
(* family F whose name differs from N, covers after construction N, every  *)
(* other version of F and every subtype of those versions that has no      *)
(* adapter of its own (Cylinder_1 of the family Cylinder, with Cylinder_2  *)
(* and its subtype CustomCylinder).                                        *)
(* The constructor hands N itself to FindSchemaInfosInFamily, which knows  *)
(* no family of that name: only N and the subtypes of N are covered.       *)
(***************************************************************************)
C1_FamilyOfVersionCovered ==
    pc = "done" =>
        \A a \in primTypes, family \in SchemaFamilies :
            \A n \in FamilyIdentifiers(family) \ {family} :
                ( /\ DeclaresPrim(a, n)
                  /\ PrimDeclarers(n) = <<a>>
                  /\ metadata[a].includeSchemaFamily = "true"
                  /\ metadata[a].includeDerivedPrimTypes = "true"
                  /\ \A k \in FamilyIdentifiers(family) \ {n}, b \in primTypes :
                        ~DeclaresPrim(b, k) )
                => C1_Covered(a, family, n)

(***************************************************************************)
(* C2.  Explicit-over-inherited precedence: a type T whose name an enabled *)
(* adapter of its own declares, below an ancestor A whose adapter set      *)
(* includeDerivedPrimTypes, is mapped in the finished _typeMap to T's own  *)
(* adapter (the last one enumerated that declares T) and not to A's, in    *)
(* every enumeration order.                                                *)
(***************************************************************************)
C2_ExplicitOverInherited ==
    pc = "done" =>
        \A ancestor \in PrimTypeNames, a \in primTypes :
            ( /\ DeclaresPrim(a, ancestor)
              /\ metadata[a].includeDerivedPrimTypes = "true" )
            => \A t \in DerivedNames(ancestor) :
                   PrimDeclarers(t) # <<>>
                   => /\ Contains(_typeMap, t)
                      /\ _typeMap[t] = Last(PrimDeclarers(t))
                      /\ _typeMap[t] # a

\* CustomCylinder has an adapter of its own, enumerated first; the adapter of
\* its base Cylinder_2 opted in and was propagated to CappedCylinder.
C2_Witness ==
    /\ pc = "done"
    /\ \E a, b \in primTypes :
          /\ enumerated = <<b, a>>
          /\ DeclaresPrim(a, "Cylinder_2")
          /\ metadata[a].includeDerivedPrimTypes = "true"
          /\ DeclaresPrim(b, "CustomCylinder")
          /\ Contains(_typeMap, "CustomCylinder")
          /\ Contains(_typeMap, "CappedCylinder")
          /\ _typeMap["CustomCylinder"] = b
          /\ _typeMap["CappedCylinder"] = a

(***************************************************************************)
(* C3.  Family non-override: a version V of a schema family that an        *)
(* enabled adapter declares keeps, through and after the loop over         *)
(* includeSchemaFamilies, the adapter the first loop gave it, also when    *)
(* V's adapter is enumerated after the adapter that opted in with          *)
(* includeSchemaFamily.                                                    *)
(***************************************************************************)
C3_FamilyNonOverride ==
    PrimDiscovered =>
        \A family \in SchemaFamilies :
            \A v \in FamilyIdentifiers(family) :
                PrimDeclarers(v) # <<>>
                => Contains(_typeMap, v) /\ _typeMap[v] = Last(PrimDeclarers(v))

\* The adapter of the family Cylinder opted in and was enumerated first;
\* Cylinder_1 has its own adapter; the family's adapter went to Cylinder_2.
C3_Witness ==
    /\ FamiliesProcessed
    /\ \E a, b \in primTypes :
          /\ enumerated = <<a, b>>
          /\ DeclaresPrim(a, "Cylinder")
          /\ metadata[a].includeSchemaFamily = "true"
          /\ DeclaresPrim(b, "Cylinder_1")
          /\ Contains(_typeMap, "Cylinder_1")
          /\ Contains(_typeMap, "Cylinder_2")
          /\ _typeMap["Cylinder_1"] = b
          /\ _typeMap["Cylinder_2"] = a

(***************************************************************************)
(* C4.  Shadowing during propagation: when the traversal pops a derived    *)
(* type whose name is already in the map, the map is left as it is and     *)
(* none of that type's directly derived types is pushed: the stack only    *)
(* loses its top.                                                          *)
(***************************************************************************)
C4_ShadowedTypeStopsDescent ==
    [][ ( /\ derivedTypesStack # <<>>
          /\ Contains(CurrentMap, GetSchemaTypeName(Last(derivedTypesStack))) )
        => /\ _typeMap' = _typeMap
           /\ _apiSchemaTypeMap' = _apiSchemaTypeMap
           /\ derivedTypesStack' =
                 SubSeq(derivedTypesStack, 1, Len(derivedTypesStack) - 1)
      ]_vars

\* LightAPI's adapter opted in; MeshLightAPI has an adapter of its own that
\* did not: the traversal stopped there and PortalLightAPI, derived from
\* MeshLightAPI, got no adapter.
C4_Witness ==
    /\ pc = "done"
    /\ \E a, b \in apiTypes :
          /\ DeclaresApi(a, "LightAPI")
          /\ metadata[a].includeDerivedPrimTypes = "true"
          /\ DeclaresApi(b, "MeshLightAPI")
          /\ metadata[b].includeDerivedPrimTypes # "true"
          /\ Contains(_apiSchemaTypeMap, "MeshLightAPI")
          /\ _apiSchemaTypeMap["MeshLightAPI"] = b
          /\ ~Contains(_apiSchemaTypeMap, "PortalLightAPI")

\* The conflicts posted for n when the adapters of declarers were enumerated
\* in that order.
C5_ExpectedConflicts(n, declarers) ==
    [ i \in 1 .. Len(declarers) - 1 |->
        [ primType |-> n, used |-> declarers[i + 1],
          discarded |-> declarers[i] ] ]

(***************************************************************************)
(* C5.  When two or more enabled prim adapters declare the same            *)
(* primTypeName, the constructor still runs to its end, the finished       *)
(* _typeMap holds for that name the adapter enumerated last among them,    *)
(* and one coding error was posted per overwrite, naming the adapter       *)
(* discarded and the adapter used.                                         *)
(***************************************************************************)
C5_LastAdapterWinsWithConflict ==
    /\ pc # "done" => ENABLED Construct
    /\ PrimDiscovered =>
          \A n \in PrimTypeNames :
              Len(PrimDeclarers(n)) >= 2
              => /\ Contains(_typeMap, n)
                 /\ _typeMap[n] = Last(PrimDeclarers(n))
                 /\ SelectSeq(codingErrors, LAMBDA c : c.primType = n)
                       = C5_ExpectedConflicts(n, PrimDeclarers(n))

\* Three adapters declare Cylinder_2; A1 was enumerated last, after A2.
C5_Witness ==
    /\ pc = "done"
    /\ enumerated = <<"A3", "A2", "A1">>
    /\ \A a \in PrimAdapters : DeclaresPrim(a, "Cylinder_2")
    /\ Contains(_typeMap, "Cylinder_2")
    /\ _typeMap["Cylinder_2"] = "A1"
    /\ codingErrors = << [ primType |-> "Cylinder_2", used |-> "A2",
                           discarded |-> "A3" ],
                         [ primType |-> "Cylinder_2", used |-> "A1",
                           discarded |-> "A2" ] >>

(***************************************************************************)
(* C6.  Conflict reporting in the API schema family: when an enabled API   *)
(* schema adapter declares a non-empty apiSchemaName that is already in    *)
(* _apiSchemaTypeMap, the entry goes to the later adapter and a conflict   *)
(* naming both adapters is reported.                                       *)
(* The second loop overwrites the entry and reports nothing.               *)
(***************************************************************************)
C6_ApiConflictReported ==
    pc = "done" =>
        \A n \in ApiSchemaNames \ {""} :
            Len(ApiDeclarers(n)) >= 2
            => /\ _apiSchemaTypeMap[n] = Last(ApiDeclarers(n))
               /\ SelectSeq(codingErrors, LAMBDA c : c.used \in ApiAdapters)
                     = C5_ExpectedConflicts(n, ApiDeclarers(n))

\* Adapter a is in no entry of _apiSchemaTypeMap, the empty name is no key,
\* and a is once in _keylessApiSchemaAdapterTypes.
C7_Isolated(a) ==
    /\ a \notin Values(_apiSchemaTypeMap)
    /\ "" \notin Elements(_apiSchemaAdapterKeys)
    /\ Len(SelectSeq(_keylessApiSchemaAdapterTypes, LAMBDA t : t = a)) = 1

(***************************************************************************)
(* C7.  Keyless isolation, as first stated: an enabled API schema adapter  *)
(* with no declared name is never a value of _apiSchemaTypeMap, adds no    *)
(* key to _apiSchemaAdapterKeys, and the result of                         *)
(* ConstructKeylessAPISchemaAdapters() contains an instance of it.         *)
(***************************************************************************)
C7_KeylessAlwaysConstructed ==
    pc = "done" =>
        \A a \in apiTypes :
            DeclaresApi(a, "")
            => /\ C7_Isolated(a)
               /\ ret.op = "ConstructKeylessAPISchemaAdapters"
                     => a \in Elements(ret.list)

\* Every stage of a construction succeeds.
C7_Succeeds(env) == env.load /\ env.factory /\ env.new

(***************************************************************************)
(* C7, amended.  An enabled API schema adapter that declares the empty     *)
(* apiSchemaName is never a value of _apiSchemaTypeMap, adds no key to     *)
(* _apiSchemaAdapterKeys and is once in _keylessApiSchemaAdapterTypes; the *)
(* result of ConstructKeylessAPISchemaAdapters() contains an instance of   *)
(* it exactly when its plugin loads, its factory is found and the factory  *)
(* yields an instance, and one coding error is posted for each keyless     *)
(* adapter that is left out.                                               *)
(***************************************************************************)
C7_KeylessIsolation ==
    pc = "done" =>
        /\ \A a \in apiTypes : DeclaresApi(a, "") => C7_Isolated(a)
        /\ ret.op = "ConstructKeylessAPISchemaAdapters"
              => /\ \A i \in 1 .. Len(_keylessApiSchemaAdapterTypes) :
                       _keylessApiSchemaAdapterTypes[i] \in Elements(ret.list)
                           <=> C7_Succeeds(ret.env[i])
                 /\ ret.codingErrors =
                       Cardinality({ i \in 1 .. Len(_keylessApiSchemaAdapterTypes) :
                                       ~C7_Succeeds(ret.env[i]) })

\* Two keyless adapters; the construction of the first fails, the second is
\* returned.
C7_Witness ==
    /\ pc = "done"
    /\ ret.op = "ConstructKeylessAPISchemaAdapters"
    /\ Len(_keylessApiSchemaAdapterTypes) = 2
    /\ DeclaresApi(_keylessApiSchemaAdapterTypes[1], "")
    /\ ~C7_Succeeds(ret.env[1])
    /\ C7_Succeeds(ret.env[2])
    /\ ret.list = << _keylessApiSchemaAdapterTypes[2] >>
    /\ ret.codingErrors = 1

\* Adapter a has a plugin and is enabled.
C8_Enabled(a) ==
    metadata[a].plugin /\ IsEnabled(metadata[a]) = "enabled"

\* The second loop is at adapter a in this step.
C8_Discovers(a) ==
    pc = "api" /\ a \in types /\ enumerated' = Append(enumerated, a)

(***************************************************************************)
(* C8, as first stated.  An enabled API schema adapter whose metadata has  *)
(* no apiSchemaName entry is accepted without an error and placed in       *)
(* _keylessApiSchemaAdapterTypes, like one that declares the empty name.   *)
(***************************************************************************)
C8_MissingNameIsKeyless ==
    [][ \A a \in ApiAdapters :
          ( /\ C8_Discovers(a)
            /\ C8_Enabled(a)
            /\ metadata[a].apiSchemaName \in {Absent, ""} )
          => /\ runtimeErrors' = runtimeErrors
             /\ _keylessApiSchemaAdapterTypes'
                   = Append(_keylessApiSchemaAdapterTypes, a)
      ]_vars

(***************************************************************************)
(* C8, amended.  An enabled API schema adapter whose metadata has no       *)
(* apiSchemaName entry is reported with one runtime error and skipped: it  *)
(* enters neither _apiSchemaTypeMap nor _keylessApiSchemaAdapterTypes.     *)
(* Only an adapter that declares the empty string as its apiSchemaName is  *)
(* placed in _keylessApiSchemaAdapterTypes, without an error.              *)
(***************************************************************************)
C8_MissingNameIsSkipped ==
    [][ \A a \in ApiAdapters :
          ( C8_Discovers(a) /\ C8_Enabled(a) )
          => /\ metadata[a].apiSchemaName = Absent
                => /\ runtimeErrors' = runtimeErrors + 1
                   /\ _keylessApiSchemaAdapterTypes'
                         = _keylessApiSchemaAdapterTypes
                   /\ _apiSchemaTypeMap' = _apiSchemaTypeMap
             /\ metadata[a].apiSchemaName = ""
                => /\ runtimeErrors' = runtimeErrors
                   /\ _keylessApiSchemaAdapterTypes'
                         = Append(_keylessApiSchemaAdapterTypes, a)
                   /\ _apiSchemaTypeMap' = _apiSchemaTypeMap
      ]_vars

\* One adapter without an apiSchemaName entry and one with the empty name
\* were discovered: one error, one keyless adapter.
C8_Witness ==
    /\ pc = "done"
    /\ \E a, b \in apiTypes :
          /\ C8_Enabled(a) /\ metadata[a].apiSchemaName = Absent
          /\ DeclaresApi(b, "")
          /\ _keylessApiSchemaAdapterTypes = <<b>>
          /\ runtimeErrors = 1
          /\ _apiSchemaTypeMap = EmptyMap

(***************************************************************************)
(* C9.  For the built-in key instanceAdapterKey, HasAdapter returns true   *)
(* whatever plugins are registered (none included), and ConstructAdapter   *)
(* returns the built-in UsdImagingInstanceAdapter without looking at       *)
(* _typeMap and without an error, also when a plugin declared that key as  *)
(* its primTypeName.                                                       *)
(***************************************************************************)
C9_BuiltInKey ==
    /\ ( ret.op = "HasAdapter" /\ ret.key = instanceAdapterKey ) => ret.found
    /\ ( ret.op = "ConstructAdapter" /\ ret.key = instanceAdapterKey )
          => /\ ret.instance = UsdImagingInstanceAdapter
             /\ ret.codingErrors = 0

\* A plugin declared the built-in key; its plugin would not even load, and
\* ConstructAdapter returned the built-in adapter.
C9_Witness ==
    /\ ret.op = "ConstructAdapter"
    /\ ret.key = instanceAdapterKey
    /\ ~ret.env.load
    /\ Contains(_typeMap, instanceAdapterKey)
    /\ _typeMap[instanceAdapterKey] \in primTypes
    /\ ret.instance = UsdImagingInstanceAdapter

\* What a construction by name from the map tm must have returned, ret being
\* the call.
C10_Outcome(tm) ==
    LET present == Contains(tm, ret.key)
        succeeds == /\ present
                    /\ GetPluginForType(tm[ret.key])
                    /\ ret.env.load /\ ret.env.factory /\ ret.env.new
    IN  /\ ret.instance # NULL_ADAPTER <=> succeeds
        /\ succeeds => ret.instance = tm[ret.key] /\ ret.codingErrors = 0
        /\ ~present => ret.codingErrors = 0
        /\ present /\ ~succeeds => ret.codingErrors = 1

(***************************************************************************)
(* C10.  ConstructAdapter(name) for a name other than the built-in key and *)
(* ConstructAPISchemaAdapter(name) return an instance exactly when the     *)
(* name is in the map they read and the plugin of its adapter type is      *)
(* found and loads, the factory is found and the factory yields an         *)
(* instance; the instance is one of the mapped adapter type.  For a name   *)
(* that is absent they return the empty pointer and post no error; for a   *)
(* name that is present, when a stage fails, they return the empty pointer *)
(* and post exactly one coding error.                                      *)
(***************************************************************************)
C10_ConstructByName ==
    /\ ( ret.op = "ConstructAdapter" /\ ret.key # instanceAdapterKey )
          => C10_Outcome(_typeMap)
    /\ ret.op = "ConstructAPISchemaAdapter" => C10_Outcome(_apiSchemaTypeMap)

\* FancyCylinder got its adapter by propagation; the factory of that adapter
\* yielded nothing: the empty pointer and one coding error.
C10_Witness ==
    /\ ret.op = "ConstructAdapter"
    /\ ret.key = "FancyCylinder"
    /\ Contains(_typeMap, "FancyCylinder")
    /\ ret.env.load /\ ret.env.factory /\ ~ret.env.new
    /\ ret.instance = NULL_ADAPTER
    /\ ret.codingErrors = 1

\* The tables the constructor builds.
C11_Tables ==
    << _typeMap, _adapterKeys, _apiSchemaTypeMap, _apiSchemaAdapterKeys,
       _keylessApiSchemaAdapterTypes >>

(***************************************************************************)
(* C11.  Once the constructor has returned, every facade call (HasAdapter, *)
(* HasAPISchemaAdapter, GetAdapterKeys, GetAPISchemaAdapterKeys,           *)
(* ConstructAdapter, ConstructAPISchemaAdapter,                            *)
(* ConstructKeylessAPISchemaAdapters), whether it succeeds or fails,       *)
(* leaves both maps, both key vectors and _keylessApiSchemaAdapterTypes as *)
(* they are, so that HasAdapter(name) and HasAPISchemaAdapter(name) have   *)
(* the same value before and after every step.                            *)
(***************************************************************************)
C11_FacadeLeavesTables ==
    [][ pc = "done"
        => /\ C11_Tables' = C11_Tables
           /\ \A k \in PrimQueryKeys : HasAdapter(k)' = HasAdapter(k)
           /\ \A k \in ApiQueryKeys :
                 HasAPISchemaAdapter(k)' = HasAPISchemaAdapter(k)
      ]_vars

\* A construction for a name that is present failed (its plugin did not
\* load) and, before that, the tables were not empty; the key "Sphere" that
\* a caller may ask for is in neither map.
C11_Witness ==
    /\ pc = "done"
    /\ ret.op = "ConstructAdapter"
    /\ ret.key \in DOMAIN _typeMap
    /\ ~ret.env.load
    /\ ret.codingErrors = 1
    /\ _adapterKeys # <<>>
    /\ ~Contains(_typeMap, "Sphere")

\* What a thread finds in the finished tables.
C12_Finished ==
    [ built |-> TRUE,
      tables |-> << _typeMap, _adapterKeys, _apiSchemaTypeMap,
                    _apiSchemaAdapterKeys >> ]

(***************************************************************************)
(* C12.  With several threads making their first access to the registry at *)
(* the same time, the constructor is entered once, every lookup or         *)
(* enumeration a thread makes happens after the constructor has returned   *)
(* (no thread finds a partially built map or key vector), and all threads  *)
(* find the same finished tables.                                          *)
(***************************************************************************)
C12_BuiltOnceSeenFinished ==
    /\ constructions <= 1
    /\ \A t \in Threads :
          threadPc[t] \in {"ready", "done"} => pc = "done" /\ constructions = 1
    /\ \A t \in Threads :
          threadPc[t] = "done" => observed[t] = C12_Finished
    /\ \A t, u \in Threads :
          threadPc[t] = "done" /\ threadPc[u] = "done"
          => observed[t] = observed[u]

\* Three threads raced: one built the registry, one waited for it, one came
\* after it was published; all three found the same tables, which are not
\* empty.
C12_Witness ==
    /\ \A t \in Threads : threadPc[t] = "done"
    /\ constructions = 1
    /\ _adapterKeys # <<>>
    /\ _apiSchemaAdapterKeys # <<>>
    /\ \A t \in Threads : observed[t] = C12_Finished

\* In this step the map tm (tm2 after it) lost no key, and an entry it had
\* changed only if the step is an iteration of the discovery loop `loop`
\* that wrote the adapter it enumerated.
C13_Grows(tm, tm2, loop) ==
    /\ DOMAIN tm \subseteq DOMAIN tm2
    /\ \A k \in DOMAIN tm :
          tm2[k] # tm[k]
          => /\ pc = loop
             /\ types # {}
             /\ tm2[k] \in types
             /\ enumerated' = Append(enumerated, tm2[k])

(***************************************************************************)
(* C13.  During construction the key set of each map only grows: in every  *)
(* step of the discovery loops, of the loop over includeSchemaFamilies and *)
(* of _ProcessDerivedTypes, a name that is in a map before the step is in  *)
(* it after the step.  The only change a step makes to an entry that       *)
(* exists is the overwrite by the discovery loop with the adapter it is    *)
(* at; the family loop and _ProcessDerivedTypes never change the adapter   *)
(* of a name already present.                                              *)
(***************************************************************************)
C13_KeysOnlyGrow ==
    [][ /\ C13_Grows(_typeMap, _typeMap', "prim")
        /\ C13_Grows(_apiSchemaTypeMap, _apiSchemaTypeMap', "api")
      ]_vars

\* A name was overwritten in the first loop, the family loop added
\* Cylinder_1 and _ProcessDerivedTypes added FancyCylinder, in a map that
\* holds an explicit CustomCylinder.
C13_Witness ==
    /\ pc = "done"
    /\ codingErrors # <<>>
    /\ Contains(_typeMap, "Cylinder")
    /\ Contains(_typeMap, "Cylinder_1")
    /\ PrimDeclarers("Cylinder_1") = <<>>
    /\ Contains(_typeMap, "FancyCylinder")

\* The adapters in a table: the values of the two maps and the entries of
\* _keylessApiSchemaAdapterTypes.
C14_InTables ==
    Values(_typeMap) \cup Values(_apiSchemaTypeMap)
        \cup Elements(_keylessApiSchemaAdapterTypes)

\* The enumerated adapters with a plugin whose metadata names n under field,
\* whatever their isInternal.
C14_Naming(field, n) ==
    SelectSeq(enumerated,
              LAMBDA a : /\ metadata[a].plugin
                         /\ field \in DOMAIN metadata[a]
                         /\ metadata[a][field] = n)

(***************************************************************************)
(* C14.  With external plugins disabled, every adapter that is a value of  *)
(* _typeMap or of _apiSchemaTypeMap or an entry of                         *)
(* _keylessApiSchemaAdapterTypes has isInternal present and true; an       *)
(* adapter without isInternal, with isInternal false or holding no bool    *)
(* contributes no entry, be it directly, through its schema family or      *)
(* through derived types.  With external plugins enabled isInternal has no *)
(* effect: each name goes to the last adapter enumerated that names it,    *)
(* and each adapter naming the empty API schema name is keyless, whatever  *)
(* their isInternal.                                                       *)
(***************************************************************************)
C14_InternalOnlyWhenDisabled ==
    /\ ~areExternalPluginsEnabled
          => \A a \in DOMAIN metadata :
                 a \in C14_InTables => metadata[a].isInternal = "true"
    /\ ( areExternalPluginsEnabled /\ pc = "done" )
          => /\ \A n \in PrimTypeNames :
                   C14_Naming("primTypeName", n) # <<>>
                   => /\ Contains(_typeMap, n)
                      /\ _typeMap[n] = Last(C14_Naming("primTypeName", n))
             /\ \A n \in ApiSchemaNames \ {""} :
                   C14_Naming("apiSchemaName", n) # <<>>
                   => /\ Contains(_apiSchemaTypeMap, n)
                      /\ _apiSchemaTypeMap[n] = Last(C14_Naming("apiSchemaName", n))
             /\ _keylessApiSchemaAdapterTypes = C14_Naming("apiSchemaName", "")

\* External plugins are disabled.  An adapter that is not internal names
\* the family Cylinder and opts in to both propagations, an internal one
\* names CustomCylinder: the finished map holds CustomCylinder alone.
C14_Witness ==
    /\ pc = "done"
    /\ ~areExternalPluginsEnabled
    /\ \E a, b \in primTypes :
          /\ metadata[a].plugin
          /\ metadata[a].isInternal \in {Absent, "false"}
          /\ metadata[a].primTypeName = "Cylinder"
          /\ metadata[a].includeSchemaFamily = "true"
          /\ metadata[a].includeDerivedPrimTypes = "true"
          /\ DeclaresPrim(b, "CustomCylinder")
          /\ _typeMap = Assign(EmptyMap, "CustomCylinder", b)

\* The first loop is at adapter a in this step.
C15_Discovers(a) ==
    pc = "prim" /\ a \in types /\ enumerated' = Append(enumerated, a)

\* Adapter a is enabled, declares a prim type name and holds no bool under
\* includeDerivedPrimTypes.
C15_Malformed(a) ==
    /\ \E n \in PrimTypeNames : DeclaresPrim(a, n)
    /\ metadata[a].includeDerivedPrimTypes = NonBool

(***************************************************************************)
(* C15.  For an enabled prim adapter with a valid primTypeName whose       *)
(* includeDerivedPrimTypes holds no bool: its iteration posts one runtime  *)
(* error, still writes name -> adapter to _typeMap, records the name       *)
(* neither in includeDerivedPrimTypes nor in includeSchemaFamilies (also   *)
(* when its includeSchemaFamily is true), and the loop goes on: in the     *)
(* finished map every declared name has the last adapter enumerated that   *)
(* declares it, and an adapter of Cylinder_2 that opted in is propagated   *)
(* to CappedCylinder.                                                      *)
(***************************************************************************)
C15_MalformedIncludeDerived ==
    /\ [][ \A a \in PrimAdapters :
              ( C15_Discovers(a) /\ C15_Malformed(a) )
              => /\ runtimeErrors' = runtimeErrors + 1
                 /\ _typeMap' = Assign(_typeMap, metadata[a].primTypeName, a)
                 /\ includeDerivedPrimTypes' = includeDerivedPrimTypes
                 /\ includeSchemaFamilies' = includeSchemaFamilies
                 /\ types' = types \ {a}
                 /\ pc' = "prim"
          ]_vars
    /\ []( ( pc = "done" /\ \E a \in primTypes : C15_Malformed(a) )
            => /\ \A n \in PrimTypeNames :
                     PrimDeclarers(n) # <<>>
                     => /\ Contains(_typeMap, n)
                        /\ _typeMap[n] = Last(PrimDeclarers(n))
               /\ \A b \in primTypes :
                     ( /\ DeclaresPrim(b, "Cylinder_2")
                       /\ metadata[b].includeDerivedPrimTypes = "true" )
                     => Contains(_typeMap, "CappedCylinder") )

\* The adapter of the family Cylinder asked for the family behind a
\* corrupted includeDerivedPrimTypes and was enumerated first: Cylinder is
\* mapped, no version of the family is, one error was posted, and the
\* adapter of Cylinder_2 enumerated after it was propagated.
C15_Witness ==
    /\ pc = "done"
    /\ runtimeErrors = 1
    /\ \E a, b \in primTypes :
          /\ enumerated = <<a, b>>
          /\ C15_Malformed(a)
          /\ metadata[a].primTypeName = "Cylinder"
          /\ metadata[a].includeSchemaFamily = "true"
          /\ DeclaresPrim(b, "Cylinder_2")
          /\ DOMAIN _typeMap \cap {"Cylinder", "Cylinder_1", "CappedCylinder"}
                = {"Cylinder", "CappedCylinder"}
          /\ _typeMap["Cylinder"] = a
          /\ _typeMap["CappedCylinder"] = b

(***************************************************************************)
(* C16.  The constructor always terminates: for the type graph at hand,    *)
(* which has a type with two base types (UsdFancyCylinder) and a cycle of  *)
(* the direct-subtype relation (UsdRingA, UsdRingB), the traversal stack   *)
(* of _ProcessDerivedTypes becomes empty for every root, and the           *)
(* constructor reaches its end with both maps and both key vectors filled  *)
(* in.                                                                     *)
(***************************************************************************)
C16_ConstructionTerminates ==
    /\ <>(pc = "done")
    /\ (derivedTypesStack # <<>>) ~> (derivedTypesStack = <<>>)
    /\ [](pc = "done"
            => /\ derivedTypesStack = <<>>
               /\ Elements(_adapterKeys) = DOMAIN _typeMap
               /\ Elements(_apiSchemaAdapterKeys) = DOMAIN _apiSchemaTypeMap)

\* The constructor has returned after traversals that went round the cycle
\* (RingB got the adapter of RingA, and RingA was popped again) and through
\* the type with two bases.
C16_Witness ==
    /\ pc = "done"
    /\ \E a, b \in primTypes :
          /\ DeclaresPrim(a, "RingA")
          /\ DeclaresPrim(b, "Cylinder_2")
          /\ DOMAIN _typeMap =
                {"RingA", "RingB", "Cylinder_2", "CustomCylinder",
                 "CappedCylinder", "FancyCylinder"}
          /\ _typeMap["RingB"] = a
          /\ _typeMap["FancyCylinder"] = b
    /\ \E i \in 1 .. Len(visited) : visited[i].type = "UsdRingA"

\* The pops of type in the running traversal, and those that added its name
\* to the map.
C17_Pops(type) == SelectSeq(visited, LAMBDA v : v.type = type)
C17_Inserts(type) == SelectSeq(visited, LAMBDA v : v.type = type /\ v.inserted)

\* The direct base types of type.
C17_Bases(type) ==
    { b \in SchemaTypes : type \in Elements(GetDirectlyDerivedTypes(b)) }

(***************************************************************************)
(* C17, as first stated.  Within the traversal that _ProcessDerivedTypes   *)
(* starts from one root, each type is popped from derivedTypesStack at     *)
(* most once.                                                              *)
(***************************************************************************)
C17_PoppedAtMostOnce ==
    \A type \in SchemaTypes : Len(C17_Pops(type)) <= 1

(***************************************************************************)
(* C17, amended.  Within the traversal started from one root, each type is *)
(* popped at most once for each of its direct base types, and at most one  *)
(* of these pops adds its name to the map and pushes its directly derived  *)
(* types: a type with two base types can be popped twice, the second pop   *)
(* finding its name present.  (The record of the pops is never full.)      *)
(***************************************************************************)
C17_PoppedOncePerBase ==
    /\ Len(visited) < MaxVisited
    /\ \A type \in SchemaTypes :
          /\ Len(C17_Pops(type)) <= Cardinality(C17_Bases(type))
          /\ Len(C17_Inserts(type)) <= 1

\* From the root Cylinder_2: CappedCylinder, then FancyCylinder below it,
\* then CustomCylinder, then FancyCylinder again, its name now present.
C17_Witness ==
    visited = << [ type |-> "UsdCappedCylinder", inserted |-> TRUE ],
                 [ type |-> "UsdFancyCylinder", inserted |-> TRUE ],
                 [ type |-> "UsdCustomCylinder", inserted |-> TRUE ],
                 [ type |-> "UsdFancyCylinder", inserted |-> FALSE ] >>

\* The ancestors of type at distance d in the graph of direct base types.
RECURSIVE C18_AncestorsAt(_, _)
C18_AncestorsAt(type, d) ==
    IF d = 0 THEN {type}
    ELSE UNION { C17_Bases(x) : x \in C18_AncestorsAt(type, d - 1) }

\* The names that were in the prim map, and in the API schema map, when
\* _ProcessDerivedTypes started: those the discovery loop wrote and, in the
\* prim map, the versions of the families recorded in
\* includeSchemaFamilies.
C18_PrimStartNames ==
    { n \in DOMAIN _typeMap : PrimDeclarers(n) # <<>> }
        \cup UNION { FamilyIdentifiers(f[1]) : f \in Elements(includeSchemaFamilies) }
C18_ApiStartNames ==
    { n \in DOMAIN _apiSchemaTypeMap : ApiDeclarers(n) # <<>> }

\* The ancestors of type, at distance d, whose name is among startNames.
C18_MappedAt(type, d, startNames) ==
    { a \in C18_AncestorsAt(type, d) : GetSchemaTypeName(a) \in startNames }

\* Every name that _ProcessDerivedTypes added to tm has the adapter of one
\* of the nearest ancestors of its type whose name is among startNames.
C18_Nearest(tm, startNames) ==
    \A k \in DOMAIN tm \ startNames :
        LET type == GetTypeFromSchemaTypeName(k)
            depths == { d \in 1 .. Cardinality(SchemaTypes) :
                          C18_MappedAt(type, d, startNames) # {} }
        IN  /\ depths # {}
            /\ LET nearest == CHOOSE d \in depths : \A e \in depths : d <= e
               IN  tm[k] \in { tm[GetSchemaTypeName(a)] :
                                 a \in C18_MappedAt(type, nearest, startNames) }

(***************************************************************************)
(* C18.  Nearest-ancestor rule: in the finished maps every name that       *)
(* _ProcessDerivedTypes added has the adapter of the nearest ancestor of   *)
(* its type that had a mapping when _ProcessDerivedTypes started, never    *)
(* that of a more distant ancestor, in whatever order the roots are        *)
(* processed.                                                              *)
(* UsdFancyCylinder, reached below UsdCappedCylinder from the root         *)
(* Cylinder_2, gets the adapter of Cylinder_2 although its base            *)
(* CustomCylinder has an adapter of its own.                               *)
(***************************************************************************)
C18_NearestAncestorWins ==
    pc = "done"
    => /\ C18_Nearest(_typeMap, C18_PrimStartNames)
       /\ C18_Nearest(_apiSchemaTypeMap, C18_ApiStartNames)

\* The adapters that passed the discovery loop of the prim adapters, and of
\* the API schema adapters, with a name to be mapped.
C19_PrimCandidates ==
    { a \in primTypes :
        \E n \in PrimTypeNames \cup GraphPrimTypeNames : DeclaresPrim(a, n) }
C19_ApiCandidates ==
    { a \in apiTypes : \E n \in ApiSchemaNames \ {""} : DeclaresApi(a, n) }

(***************************************************************************)
(* C19.  Every value of the finished _typeMap and _apiSchemaTypeMap is the *)
(* type of an enabled adapter that passed the discovery loop; no name is   *)
(* mapped to the unknown type.  This is to hold also when the schema type  *)
(* name of a family's version, pushed to includeDerivedPrimTypes, is not   *)
(* the identifier under which the family loop emplaced the version, so     *)
(* that the root's name is no key of the map when its adapter is read.     *)
(* There the read of the map with operator[] inserts the unknown type     *)
(* under the root's name and the traversal hands it on to the derived      *)
(* types.                                                                  *)
(***************************************************************************)
C19_ValuesAreAdapters ==
    pc = "done"
    => /\ Values(_typeMap) \subseteq C19_PrimCandidates
       /\ Values(_apiSchemaTypeMap) \subseteq C19_ApiCandidates

\* Adapter x, which declared the name n, opted in to what covers the name k:
\* its schema family for a version of the family n, the derived types for
\* any other name.
C20_OptedIn(x, n, k) ==
    IF k \in FamilyIdentifiers(n)
    THEN metadata[x].includeSchemaFamily = "true"
    ELSE metadata[x].includeDerivedPrimTypes = "true"

(***************************************************************************)
(* C20.  Propagation is opt-in per adapter: in the finished _typeMap an    *)
(* adapter X is mapped to a name other than the primTypeName it declared   *)
(* only if X's own metadata holds includeDerivedPrimTypes true (for a      *)
(* derived type's name) or includeSchemaFamily true (for a version of its  *)
(* family), also when X overwrote in the first loop an adapter that        *)
(* declared the same name and had opted in while X did not.                *)
(* The name stays recorded when its adapter is overwritten, and the        *)
(* adapter is read from the map only when the propagation runs: the        *)
(* adapter that did not opt in is propagated.                              *)
(***************************************************************************)
C20_PropagationIsOptIn ==
    pc = "done"
    => \A k \in DOMAIN _typeMap :
           LET x == _typeMap[k]
           IN  ( x \in primTypes /\ metadata[x].primTypeName # k )
               => C20_OptedIn(x, metadata[x].primTypeName, k)

\* No two enabled adapters declare the same name.
C21_NoConflicts ==
    /\ \A a, b \in primTypes :
          \A n \in OrderPrimTypeNames :
             ( DeclaresPrim(a, n) /\ DeclaresPrim(b, n) ) => a = b
    /\ \A a, b \in apiTypes :
          \A n \in ApiSchemaNames :
             ( DeclaresApi(a, n) /\ DeclaresApi(b, n) ) => a = b

(***************************************************************************)
(* C21.  Order independence without conflicts: when no two enabled         *)
(* adapters declare the same name, a build that enumerated the candidates  *)
(* in another order than an earlier build of the same candidates and the   *)
(* same metadata ends with the same _typeMap and the same                  *)
(* _apiSchemaTypeMap, also when a type has several bases whose adapters    *)
(* both opted in to includeDerivedPrimTypes.                               *)
(* The roots of the propagation are taken in the order in which the first  *)
(* loop recorded them and each emplaces what is still free: a type below   *)
(* two roots goes to the root recorded first.                              *)
(***************************************************************************)
C21_OrderIndependent ==
    ( /\ pc = "done"
      /\ earlier # NoEarlierBuild
      /\ C21_NoConflicts )
    => ( earlier[1].enumerated # enumerated
         => /\ _typeMap = earlier[1]._typeMap
            /\ _apiSchemaTypeMap = earlier[1]._apiSchemaTypeMap )

====
